---- MODULE Spec2Model ----
(***************************************************************************)
(* github-dev-intel: the search, repo-stats and compare entrypoints of     *)
(* src/index.ts, with fetchGitHub and formatRepo, as a state machine.      *)
(*                                                                         *)
(* One request is in flight at a time (handlers share no state).  A        *)
(* handler's start issues its whole fan-out of upstream calls, which is    *)
(* synchronous in the source; each upstream call then settles in its own   *)
(* step, in any order, and the step runs the continuations the settlement  *)
(* wakes (the microtasks of the source) to the end.                        *)
(***************************************************************************)
EXTENDS Integers, Sequences, FiniteSets, TLC

VARIABLES
    pc,             \* "idle", the key of the running entrypoint, or "done"
    input,          \* ctx.input of the request in flight
    calls,          \* the upstream calls of the request: id -> promise
    repoDataArray,  \* compare: the slots of the outer Promise.all
    response        \* what the handler returned or threw

vars == <<pc, input, calls, repoDataArray, response>>

----------------------------------------------------------------------------
(* Bounds of the model *)

MaxRepos == 3       \* longest compare request explored (the schema allows 5)
MaxItems == 1       \* longest data.items list a search response carries

----------------------------------------------------------------------------
(* JavaScript values: a tag t and, where there is one, a payload v *)

Undefined == [t |-> "undefined"]
Null == [t |-> "null"]
NaN == [t |-> "nan"]
Str(s) == [t |-> "str", v |-> s]        \* a string kept whole
Chars(s) == [t |-> "chars", v |-> s]    \* a string kept as its characters
Num(n) == [t |-> "num", v |-> n]
Bool(b) == [t |-> "bool", v |-> b]
List(s) == [t |-> "list", v |-> s]
Obj(f) == [t |-> "obj", v |-> f]

EmptyObject == [k \in {} |-> Undefined]

\* ToBoolean, as `if (x)` and `x || y` apply it
Truthy(x) ==
    CASE x.t \in {"undefined", "null", "nan"} -> FALSE
      [] x.t = "str" -> x.v # ""
      [] x.t = "chars" -> x.v # <<>>
      [] x.t = "num" -> x.v # 0
      [] x.t = "bool" -> x.v
      [] OTHER -> TRUE

\* a || b
Or(a, b) == IF Truthy(a) THEN a ELSE b

\* o.f on a property map o: an absent property reads as undefined
Get(o, f) == IF f \in DOMAIN o THEN o[f] ELSE Undefined

\* x?.f
OptGet(x, f) ==
    IF x.t \in {"undefined", "null"} THEN Undefined
    ELSE IF x.t = "obj" THEN Get(x.v, f)
    ELSE Undefined

----------------------------------------------------------------------------
(* formatRepo *)

formatRepo(repo) ==
    [ fullName      |-> Get(repo, "full_name"),
      name          |-> Get(repo, "name"),
      owner         |-> OptGet(Get(repo, "owner"), "login"),
      description   |-> Get(repo, "description"),
      stars         |-> Get(repo, "stargazers_count"),
      forks         |-> Get(repo, "forks_count"),
      watchers      |-> Get(repo, "watchers_count"),
      openIssues    |-> Get(repo, "open_issues_count"),
      language      |-> Get(repo, "language"),
      topics        |-> Or(Get(repo, "topics"), List(<<>>)),
      license       |-> Or(OptGet(Get(repo, "license"), "spdx_id"), Null),
      createdAt     |-> Get(repo, "created_at"),
      updatedAt     |-> Get(repo, "updated_at"),
      pushedAt      |-> Get(repo, "pushed_at"),
      defaultBranch |-> Get(repo, "default_branch"),
      homepage      |-> Or(Get(repo, "homepage"), Null),
      url           |-> Get(repo, "html_url"),
      isArchived    |-> Get(repo, "archived"),
      isFork        |-> Get(repo, "fork") ]

----------------------------------------------------------------------------
(* Strings as character sequences: encodeURIComponent and `${n}` *)

\* the characters encodeURIComponent leaves alone, among those the model uses
Unreserved ==
    { "a", "b", "c", "e", "f", "g", "l", "n", "o", "r", "s", "t", "u",
      "A", "B", "D", "E",
      "0", "1", "2", "3", "4", "5", "6", "7", "8", "9",
      "-", "_", ".", "!", "~", "*", "'", "(", ")" }

\* the UTF-8 escape of the other characters the model uses
PercentCode(c) ==
    CASE c = " " -> <<"%", "2", "0">>
      [] c = "%" -> <<"%", "2", "5">>
      [] c = "+" -> <<"%", "2", "B">>
      [] c = ":" -> <<"%", "3", "A">>
      [] c = "=" -> <<"%", "3", "D">>
      [] c = ">" -> <<"%", "3", "E">>

RECURSIVE encodeURIComponent(_)
encodeURIComponent(s) ==
    IF s = <<>> THEN <<>>
    ELSE (IF Head(s) \in Unreserved THEN <<Head(s)>> ELSE PercentCode(Head(s)))
         \o encodeURIComponent(Tail(s))

Digit(d) == <<"0", "1", "2", "3", "4", "5", "6", "7", "8", "9">>[d + 1]

\* `${n}` for a natural number n
RECURSIVE NumberToString(_)
NumberToString(n) ==
    IF n < 10 THEN <<Digit(n)>>
    ELSE NumberToString(n \div 10) \o <<Digit(n % 10)>>

----------------------------------------------------------------------------
(* fetchGitHub and the promise combinators the handlers use *)

ErrorMessage(resp) == Str(<<"GitHub API error: ", resp.status, " - ", resp.text>>)

\* response.ok
Ok(resp) == resp.status >= 200 /\ resp.status <= 299

\* faulty variant: a failed request is sent a second time before the call gives up
fetchGitHubRetry(call, resp) ==
    IF Ok(resp)
    THEN [call EXCEPT !.state = "fulfilled", !.value = resp.json]
    ELSE IF call.issued < 2
    THEN [call EXCEPT !.issued = @ + 1]
    ELSE [call EXCEPT !.state = "rejected", !.value = ErrorMessage(resp)]

\* the promise of one fetchGitHub call once the upstream has answered with resp
fetchGitHub(call, resp) ==
    IF Ok(resp)
    THEN [call EXCEPT !.state = "fulfilled", !.value = resp.json]
    ELSE [call EXCEPT !.state = "rejected", !.value = ErrorMessage(resp)]

\* fetchGitHub(path) when called: the request goes out once and is pending
Issue(path) ==
    [path |-> path, issued |-> 1, state |-> "pending", value |-> Undefined]

\* p.catch(() => fallback)
Catch(p, fallback) ==
    IF p.state = "rejected"
    THEN [p EXCEPT !.state = "fulfilled", !.value = fallback]
    ELSE p

\* Promise.all(ps): rejected as soon as a member is, fulfilled with the values
\* in the order of ps once all are.  In each use here at most one member can
\* reject, so the reason is that member's.
PromiseAll(ps) ==
    IF \E i \in DOMAIN ps : ps[i].state = "rejected"
    THEN [state |-> "rejected",
          value |-> ps[CHOOSE i \in DOMAIN ps : ps[i].state = "rejected"].value]
    ELSE IF \A i \in DOMAIN ps : ps[i].state = "fulfilled"
    THEN [state |-> "fulfilled", value |-> [i \in DOMAIN ps |-> ps[i].value]]
    ELSE [state |-> "pending", value |-> Undefined]

Pending(cs) == {id \in DOMAIN cs : cs[id].state = "pending"}

NoCalls == [id \in {} |-> Undefined]
NoInput == [op |-> "none"]
NoResponse == [state |-> "none"]

----------------------------------------------------------------------------
(* The upstream API: what it may answer to a path *)

RepoNames == <<"b/b", "a/a", "d/d", "c/c", "e/e">>
ShortNames == <<"b", "a", "d", "c", "e">>
ShortName(full) == ShortNames[CHOOSE i \in DOMAIN RepoNames : RepoNames[i] = full]

StarCounts == {1, 2}
ForkCounts == {0, 1}
PushDays == {1}

\* an ISO-8601 timestamp, kept as the number of its day
Time(d) == [t |-> "time", v |-> d]

Owner(full) == Obj([login |-> Str(ShortName(full))])
License == Obj([spdx_id |-> Str("MIT")])
Topics == List(<<Str("cli")>>)
Homepage == Str("https://example.org")

\* a repository record of the upstream, every field present
RawRepo(full, s, f, d) ==
    [ full_name         |-> Str(full),
      name              |-> Str(ShortName(full)),
      owner             |-> Owner(full),
      description       |-> Str("a repository"),
      stargazers_count  |-> Num(s),
      forks_count       |-> Num(f),
      watchers_count    |-> Num(s),
      open_issues_count |-> Num(0),
      language          |-> Str("TypeScript"),
      topics            |-> Topics,
      license           |-> License,
      created_at        |-> Time(0),
      updated_at        |-> Time(d),
      pushed_at         |-> Time(d),
      default_branch    |-> Str("main"),
      homepage          |-> Homepage,
      html_url          |-> Str(full),
      archived          |-> Bool(FALSE),
      fork              |-> Bool(FALSE),
      size              |-> Num(10),
      has_wiki          |-> Bool(TRUE),
      has_pages         |-> Bool(FALSE),
      has_downloads     |-> Bool(TRUE),
      subscribers_count |-> Num(s),
      network_count     |-> Num(f) ]

\* a property the upstream left out of a record
Absent == [t |-> "absent"]

\* the record r without the properties marked absent
Present(r) == [k \in {j \in DOMAIN r : r[j].t # "absent"} |-> r[k]]

\* the records a search may return: owner, license, topics and homepage each
\* present, absent, or present with an empty value
SearchItems ==
    { Present([RawRepo("a/a", 1, 0, 1) EXCEPT
                  !.owner = o, !.license = l, !.topics = tp, !.homepage = h]) :
        o \in {Absent, Owner("a/a")},
        l \in {Absent, Null, License},
        tp \in {Absent, Topics},
        h \in {Absent, Str(""), Homepage} }

Contributor(n) ==
    Obj([login |-> Str(<<"user", n>>), contributions |-> Num(10 - n),
         html_url |-> Str(<<"https://github.com/user", n>>)])

ContributorLists == { <<>>, <<Contributor(1)>>, [n \in 1..6 |-> Contributor(n)] }

LanguageBytes == Obj([TypeScript |-> Num(100)])

RECURSIVE SeqsUpTo(_, _)
SeqsUpTo(S, n) ==
    IF n = 0 THEN {<<>>}
    ELSE LET shorter == SeqsUpTo(S, n - 1)
         IN  shorter \cup {Append(s, x) : s \in {t \in shorter : Len(t) = n - 1}, x \in S}

Answer(body) == [status |-> 200, text |-> "", json |-> body]
NotFound == [status |-> 404, text |-> "Not Found", json |-> Undefined]

\* the answers the upstream may give to a request for path
Responses(path) ==
    {NotFound} \cup
    ( CASE path[1] = "/search/repositories?q=" ->
             { Answer(Obj([total_count |-> Num(Len(items)), items |-> List(items)])) :
                 items \in {[i \in DOMAIN s |-> Obj(s[i])] : s \in SeqsUpTo(SearchItems, MaxItems)} }
        [] Len(path) = 2 ->
             { Answer(Obj(RawRepo(path[2], s, f, d))) :
                 s \in StarCounts, f \in ForkCounts, d \in PushDays }
        [] path[3] = "/languages" -> { Answer(LanguageBytes) }
        [] OTHER -> { Answer(List(cl)) : cl \in ContributorLists } )

----------------------------------------------------------------------------
(* Entrypoint: search *)

Queries == { <<"f", "o", "o">>, <<"a", " ", "b">> }
Languages == { Undefined, Chars(<<>>), Chars(<<"g", "o">>), Chars(<<"c", "+", "+">>) }
MinStars == { Undefined, Num(0), Num(50) }
Sorts == { "stars", "updated" }
DefaultLimit == 10

SearchInputs ==
    { [op |-> "search", query |-> q, language |-> l, minStars |-> m,
       sort |-> s, limit |-> DefaultLimit] :
        q \in Queries, l \in Languages, m \in MinStars, s \in Sorts }

LanguageFilter(language) ==
    <<"+", "l", "a", "n", "g", "u", "a", "g", "e", ":">> \o encodeURIComponent(language)

StarsFilter(minStars) ==
    <<"+", "s", "t", "a", "r", "s", ":", ">", "=">> \o NumberToString(minStars)

\* the q of the search handler before it goes into the URL
SearchQ(in) ==
    LET q0 == in.query
        q1 == IF Truthy(in.language) THEN q0 \o LanguageFilter(in.language.v) ELSE q0
        q2 == IF Truthy(in.minStars) THEN q1 \o StarsFilter(in.minStars.v) ELSE q1
    IN  q2

SearchPath(in) ==
    << "/search/repositories?q=", encodeURIComponent(SearchQ(in)),
       "&sort=", in.sort, "&order=desc&per_page=", in.limit >>

SearchOutput(in, data) ==
    LET items == Get(data.v, "items").v
    IN  [ query        |-> Chars(in.query),
          filters      |-> [language |-> in.language, minStars |-> in.minStars,
                            sort |-> Str(in.sort)],
          count        |-> Num(Len(items)),
          totalMatches |-> Get(data.v, "total_count"),
          repos        |-> [i \in DOMAIN items |-> formatRepo(items[i].v)] ]

SearchStart(in) ==
    /\ pc = "idle"
    /\ pc' = "search"
    /\ input' = in
    /\ calls' = [id \in {<<1, "search">>} |-> Issue(SearchPath(in))]
    /\ response' = NoResponse
    /\ UNCHANGED repoDataArray

SearchSettle ==
    /\ pc = "search"
    /\ \E resp \in Responses(calls[<<1, "search">>].path) :
       LET data == fetchGitHub(calls[<<1, "search">>], resp)
       IN  /\ calls' = [calls EXCEPT ![<<1, "search">>] = data]
           /\ response' =
                IF data.state = "fulfilled"
                THEN [state |-> "returned", output |-> SearchOutput(input, data.value)]
                ELSE [state |-> "threw", error |-> data.value]
    /\ pc' = "done"
    /\ UNCHANGED <<input, repoDataArray>>

----------------------------------------------------------------------------
(* Entrypoint: repo-stats *)

Slice(s, n) == SubSeq(s, 1, IF Len(s) < n THEN Len(s) ELSE n)

TopContributors == 5

StatsOutput(repoData, contributors, languages) ==
    LET top == Slice(contributors.v, TopContributors)
    IN  formatRepo(repoData.v) @@
        [ size              |-> Get(repoData.v, "size"),
          hasWiki           |-> Get(repoData.v, "has_wiki"),
          hasPages          |-> Get(repoData.v, "has_pages"),
          hasDownloads      |-> Get(repoData.v, "has_downloads"),
          subscribersCount  |-> Get(repoData.v, "subscribers_count"),
          networkCount      |-> Get(repoData.v, "network_count"),
          languages         |-> languages,
          topContributors   |->
              [i \in DOMAIN top |->
                  [ login         |-> Get(top[i].v, "login"),
                    contributions |-> Get(top[i].v, "contributions"),
                    profileUrl    |-> Get(top[i].v, "html_url") ]] ]

StatsCalls == { <<1, "repo">>, <<1, "contributors">>, <<1, "languages">> }

StatsPath(repo, id) ==
    CASE id[2] = "repo" -> <<"/repos/", repo>>
      [] id[2] = "contributors" -> <<"/repos/", repo, "/contributors?per_page=10">>
      [] id[2] = "languages" -> <<"/repos/", repo, "/languages">>

\* faulty variant: the contributors call has lost its .catch
StatsAllNoCatch(cs) ==
    PromiseAll(<< cs[<<1, "repo">>],
                  cs[<<1, "contributors">>],
                  Catch(cs[<<1, "languages">>], Obj(EmptyObject)) >>)

\* the Promise.all of the repo-stats handler over the calls cs
StatsAll(cs) ==
    PromiseAll(<< cs[<<1, "repo">>],
                  Catch(cs[<<1, "contributors">>], List(<<>>)),
                  Catch(cs[<<1, "languages">>], Obj(EmptyObject)) >>)

StatsInputs == { [op |-> "repo-stats", repo |-> RepoNames[i]] : i \in {1, 2} }

StatsStart(in) ==
    /\ pc = "idle"
    /\ pc' = "repo-stats"
    /\ input' = in
    /\ calls' = [id \in StatsCalls |-> Issue(StatsPath(in.repo, id))]
    /\ response' = NoResponse
    /\ UNCHANGED repoDataArray

\* one of the three calls settles; the handler, if it still waits, goes on
\* as soon as the Promise.all settles
StatsSettle(id, resp) ==
    /\ input.op = "repo-stats"
    /\ calls' = [calls EXCEPT ![id] = fetchGitHub(@, resp)]
    /\ LET all == StatsAll(calls')
       IN  IF pc = "repo-stats" /\ all.state = "fulfilled"
           THEN /\ response' = [state |-> "returned",
                                output |-> StatsOutput(all.value[1], all.value[2], all.value[3])]
                /\ pc' = "done"
           ELSE IF pc = "repo-stats" /\ all.state = "rejected"
           THEN /\ response' = [state |-> "threw", error |-> all.value]
                /\ pc' = "done"
           ELSE UNCHANGED <<pc, response>>
    /\ UNCHANGED <<input, repoDataArray>>

----------------------------------------------------------------------------
(* Entrypoint: compare *)

MinRepos == 2

\* the request lists explored: the first n names
CompareInputs ==
    { [op |-> "compare", repos |-> SubSeq(RepoNames, 1, n)] : n \in MinRepos..MaxRepos }

CompareCalls(repos) == (DOMAIN repos) \X {"repo", "languages"}

ComparePath(repos, id) ==
    IF id[2] = "repo" THEN <<"/repos/", repos[id[1]]>>
    ELSE <<"/repos/", repos[id[1]], "/languages">>

\* faulty variant: the callback has lost its try/catch: a failed fetch rejects it
CompareItemNoTry(repo, i, cs) ==
    LET both == PromiseAll(<< cs[<<i, "repo">>],
                              Catch(cs[<<i, "languages">>], Obj(EmptyObject)) >>)
    IN  CASE both.state = "fulfilled" ->
               [state |-> "fulfilled",
                value |-> Obj(formatRepo(both.value[1].v) @@
                              [languages |-> both.value[2], status |-> Str("success")])]
          [] OTHER -> both

\* faulty variant: the languages call has lost its .catch: its failure is the name's
CompareItemNoCatch(repo, i, cs) ==
    LET both == PromiseAll(<< cs[<<i, "repo">>], cs[<<i, "languages">> ] >>)
    IN  CASE both.state = "fulfilled" ->
               [state |-> "fulfilled",
                value |-> Obj(formatRepo(both.value[1].v) @@
                              [languages |-> both.value[2], status |-> Str("success")])]
          [] both.state = "rejected" ->
               [state |-> "fulfilled",
                value |-> Obj([fullName |-> Str(repo), status |-> Str("error"),
                               error |-> both.value])]
          [] OTHER -> [state |-> "pending", value |-> Undefined]

\* the promise of the async callback of repos.map for the i-th name
CompareItem(repo, i, cs) ==
    LET both == PromiseAll(<< cs[<<i, "repo">>],
                              Catch(cs[<<i, "languages">>], Obj(EmptyObject)) >>)
    IN  CASE both.state = "fulfilled" ->
               [state |-> "fulfilled",
                value |-> Obj(formatRepo(both.value[1].v) @@
                              [languages |-> both.value[2], status |-> Str("success")])]
          [] both.state = "rejected" ->
               [state |-> "fulfilled",
                value |-> Obj([fullName |-> Str(repo), status |-> Str("error"),
                               error |-> both.value])]
          [] OTHER -> [state |-> "pending", value |-> Undefined]

\* faulty variant: the values are pushed as they arrive, in completion order
resolveElementPush(values, index, value) ==
    [values EXCEPT ![CHOOSE i \in DOMAIN values :
                        /\ values[i].t = "undefined"
                        /\ \A j \in 1..(i - 1) : values[j].t # "undefined"] = value]

\* the outer Promise.all stores the value of its index-th member
resolveElement(values, index, value) == [values EXCEPT ![index] = value]

\* a > b on numbers; a comparison with undefined or NaN is false
Gt(a, b) == a.t = "num" /\ b.t = "num" /\ a.v > b.v

\* new Date(x), as the number it compares as
DateOf(x) ==
    CASE x.t = "time" -> Num(x.v)
      [] x.t = "null" -> Num(0)
      [] OTHER -> NaN

\* faulty variant: the fold keeps its accumulator on a tie
byStarsKeepFirst(a, b) == IF Gt(Get(b.v, "stars"), Get(a.v, "stars")) THEN b ELSE a

byStars(a, b) == IF Gt(Get(a.v, "stars"), Get(b.v, "stars")) THEN a ELSE b
byForks(a, b) == IF Gt(Get(a.v, "forks"), Get(b.v, "forks")) THEN a ELSE b
byPushed(a, b) ==
    IF Gt(DateOf(Get(a.v, "pushedAt")), DateOf(Get(b.v, "pushedAt"))) THEN a ELSE b

\* sum + r.stars
addStars(sum, r) ==
    IF sum.t = "num" /\ Get(r.v, "stars").t = "num"
    THEN Num(sum.v + Get(r.v, "stars").v)
    ELSE NaN

\* Math.round(sum / n) for a sum >= 0 and a length n
roundedQuotient(sum, n) ==
    IF sum.t # "num" \/ n = 0 THEN NaN
    ELSE Num((2 * sum.v + n) \div (2 * n))

\* the callback of each of the four folds of the handler
callback(fold, a, b) ==
    CASE fold = "mostStars" -> byStars(a, b)
      [] fold = "mostForks" -> byForks(a, b)
      [] fold = "mostRecent" -> byPushed(a, b)
      [] fold = "avgStars" -> addStars(a, b)

\* s.reduce(callback, acc)
RECURSIVE reduce(_, _, _)
reduce(s, fold, acc) ==
    IF s = <<>> THEN acc ELSE reduce(Tail(s), fold, callback(fold, acc, Head(s)))

\* faulty variant: the failed entries are not filtered out
filterNone(rs) == rs

filterSuccess(rs) == SelectSeq(rs, LAMBDA r : Get(r.v, "status") = Str("success"))

\* successful[0]
First(s) == IF s = <<>> THEN Undefined ELSE s[1]

Comparison(rs) ==
    LET successful == filterSuccess(rs)
    IN  [ mostStars  |-> OptGet(reduce(successful, "mostStars", First(successful)), "fullName"),
          mostForks  |-> OptGet(reduce(successful, "mostForks", First(successful)), "fullName"),
          mostRecent |-> OptGet(reduce(successful, "mostRecent", First(successful)), "fullName"),
          avgStars   |-> roundedQuotient(reduce(successful, "avgStars", Num(0)),
                                         Len(successful)) ]

CompareOutput(repos, rs) ==
    [ requestedRepos |-> repos,
      count          |-> Num(Len(rs)),
      repos          |-> rs,
      comparison     |-> Comparison(rs) ]

CompareStart(in) ==
    /\ pc = "idle"
    /\ pc' = "compare"
    /\ input' = in
    /\ calls' = [id \in CompareCalls(in.repos) |-> Issue(ComparePath(in.repos, id))]
    /\ repoDataArray' = [i \in DOMAIN in.repos |-> Undefined]
    /\ response' = NoResponse

Filled(values) == {i \in DOMAIN values : values[i].t # "undefined"}

\* one of the 2N calls settles; the callback of its name goes on if its inner
\* Promise.all settles with it, and the handler once every callback returned
\* (or, as Promise.all has it, as soon as one threw)
CompareSettle(id, resp) ==
    /\ input.op = "compare"
    /\ calls' = [calls EXCEPT ![id] = fetchGitHub(@, resp)]
    /\ LET i == id[1]
           before == CompareItem(input.repos[i], i, calls)
           after == CompareItem(input.repos[i], i, calls')
       IN  IF before.state = "pending" /\ after.state = "fulfilled"
           THEN /\ repoDataArray' = resolveElement(repoDataArray, i, after.value)
                /\ IF Cardinality(Filled(repoDataArray)) + 1 = Len(repoDataArray)
                   THEN /\ response' = [state |-> "returned",
                                        output |-> CompareOutput(input.repos, repoDataArray')]
                        /\ pc' = "done"
                   ELSE UNCHANGED <<pc, response>>
           ELSE IF pc = "compare" /\ after.state = "rejected"
           THEN /\ response' = [state |-> "threw", error |-> after.value]
                /\ pc' = "done"
                /\ UNCHANGED repoDataArray
           ELSE UNCHANGED <<pc, response, repoDataArray>>
    /\ UNCHANGED input

----------------------------------------------------------------------------
(* The service *)

\* the response is out and no call of the request is in flight any more:
\* the next request may come
Finish ==
    /\ pc = "done"
    /\ Pending(calls) = {}
    /\ pc' = "idle"
    /\ input' = NoInput
    /\ calls' = NoCalls
    /\ repoDataArray' = <<>>
    /\ response' = NoResponse

Init ==
    /\ pc = "idle"
    /\ input = NoInput
    /\ calls = NoCalls
    /\ repoDataArray = <<>>
    /\ response = NoResponse

Next ==
    \/ \E in \in SearchInputs : SearchStart(in)
    \/ SearchSettle
    \/ \E in \in StatsInputs : StatsStart(in)
    \/ \E id \in Pending(calls) : \E resp \in Responses(calls[id].path) : StatsSettle(id, resp)
    \/ \E in \in CompareInputs : CompareStart(in)
    \/ \E id \in Pending(calls) : \E resp \in Responses(calls[id].path) : CompareSettle(id, resp)
    \/ Finish

Spec == Init /\ [][Next]_vars

----------------------------------------------------------------------------
(* What the claims speak of, read off the state *)

CompareDone == pc = "done" /\ input.op = "compare"
StatsDone == pc = "done" /\ input.op = "repo-stats"
Returned == response.state = "returned"

\* the names of a compare request whose repository-record fetch succeeded,
\* failed
FetchedOk == {i \in DOMAIN input.repos : calls[<<i, "repo">>].state = "fulfilled"}
FetchFailed == {i \in DOMAIN input.repos : calls[<<i, "repo">>].state = "rejected"}

\* what the upstream reported for the i-th name
StarsOf(i) == calls[<<i, "repo">>].value.v.stargazers_count.v
ForksOf(i) == calls[<<i, "repo">>].value.v.forks_count.v

MostStarred == {i \in FetchedOk : \A j \in FetchedOk : StarsOf(j) <= StarsOf(i)}
MostForked == {i \in FetchedOk : \A j \in FetchedOk : ForksOf(j) <= ForksOf(i)}

FirstOf(S) == CHOOSE i \in S : \A j \in S : i <= j
LastOf(S) == CHOOSE i \in S : \A j \in S : j <= i

RECURSIVE SumStars(_)
SumStars(S) ==
    IF S = {} THEN 0
    ELSE LET i == CHOOSE j \in S : TRUE IN StarsOf(i) + SumStars(S \ {i})

Abs(x) == IF x < 0 THEN -x ELSE x

RECURSIVE TotalIssued(_)
TotalIssued(S) ==
    IF S = {} THEN 0
    ELSE LET id == CHOOSE x \in S : TRUE IN calls[id].issued + TotalIssued(S \ {id})

----------------------------------------------------------------------------
(* Claims *)

\* C1: a finished compare has returned, never thrown, and its list has one
\* entry per requested name: an "error" entry with the requested name and the
\* error's message for a name whose repository-record fetch failed, a
\* "success" entry for a name whose repository-record fetch succeeded.
C1_PartialFailure ==
    /\ input.op = "compare" => response.state # "threw"
    /\ CompareDone =>
        /\ Returned
        /\ Len(response.output.repos) = Len(input.repos)
        /\ FetchedOk \cup FetchFailed = DOMAIN input.repos
        /\ \A i \in FetchFailed :
             LET e == response.output.repos[i].v
             IN  /\ e.status = Str("error")
                 /\ e.fullName = Str(input.repos[i])
                 /\ e.error = calls[<<i, "repo">>].value
        /\ \A i \in FetchedOk : response.output.repos[i].v.status = Str("success")

\* a compare returned with a failed and a fetched name side by side
C1_Witness ==
    /\ CompareDone /\ Returned
    /\ FetchFailed # {} /\ FetchedOk # {}
    /\ \E i \in FetchFailed : response.output.repos[i].v.status = Str("error")

\* C2: the i-th slot of the result list, whenever it is filled and whatever
\* has settled before it, holds the outcome of the i-th requested name, and
\* the returned list is these slots in request order.
C2_RequestOrder ==
    input.op = "compare" =>
        /\ \A i \in Filled(repoDataArray) :
             LET e == repoDataArray[i].v
             IN  /\ e.fullName = Str(input.repos[i])
                 /\ e.status = Str("error") <=> i \in FetchFailed
                 /\ e.status = Str("success") <=> i \in FetchedOk
                 /\ i \in FetchedOk => e.stars = Num(StarsOf(i)) /\ e.forks = Num(ForksOf(i))
        /\ CompareDone =>
             /\ response.output.repos = repoDataArray
             /\ Filled(repoDataArray) = DOMAIN input.repos
             /\ response.output.requestedRepos = input.repos

\* a later name's outcome is in while the first name's is still out
C2_Witness ==
    /\ pc = "compare"
    /\ \E i \in Filled(repoDataArray) :
         /\ 1 \notin Filled(repoDataArray)
         /\ i > 1
         /\ repoDataArray[i].v.fullName = Str(input.repos[i])

\* C9: an entry of compare is tagged "error" exactly when the
\* repository-record fetch of its name failed; a name whose record was fetched
\* and whose languages fetch failed gets a "success" entry with an empty
\* languages mapping, whatever happened to the other names.
C9_LanguagesOptional ==
    input.op = "compare" =>
        \A i \in Filled(repoDataArray) :
            LET e == repoDataArray[i].v
            IN  /\ e.status = Str("error") <=> calls[<<i, "repo">>].state = "rejected"
                /\ ( calls[<<i, "repo">>].state = "fulfilled"
                     /\ calls[<<i, "languages">>].state = "rejected" )
                   => /\ e.status = Str("success")
                      /\ e.languages.t = "obj"
                      /\ DOMAIN e.languages.v = {}

\* a name with its languages fetch failed next to a name with its languages
\* fetched, both "success"
C9_Witness ==
    /\ CompareDone /\ Returned
    /\ \E i, j \in DOMAIN input.repos :
         /\ calls[<<i, "repo">>].state = "fulfilled"
         /\ calls[<<i, "languages">>].state = "rejected"
         /\ response.output.repos[i].v.status = Str("success")
         /\ calls[<<j, "languages">>].state = "fulfilled"
         /\ response.output.repos[j].v.status = Str("success")
         /\ DOMAIN response.output.repos[j].v.languages.v # {}

\* C10: a request's upstream calls are those of its fan-out, each sent once:
\* 3 for repo-stats and 2N for a compare of N names, at every moment from the
\* start of the handler on, so also when it returns or throws.
C10_FixedFanOut ==
    /\ \A id \in DOMAIN calls :
         /\ calls[id].issued = 1
         /\ calls[id].state \in {"pending", "fulfilled", "rejected"}
    /\ input.op = "repo-stats" =>
         /\ DOMAIN calls = StatsCalls
         /\ TotalIssued(DOMAIN calls) = 3
    /\ input.op = "compare" =>
         /\ DOMAIN calls = (DOMAIN input.repos) \X {"repo", "languages"}
         /\ TotalIssued(DOMAIN calls) = 2 * Len(input.repos)
    /\ response.state # "none" => pc = "done" /\ calls # NoCalls

\* a compare of the longest list has returned with failed calls among its 2N
C10_Witness ==
    /\ CompareDone
    /\ Len(input.repos) = MaxRepos
    /\ \E id \in DOMAIN calls : calls[id].state = "rejected"
    /\ TotalIssued(DOMAIN calls) = 2 * MaxRepos

C4_AllFailedNull ==
    (CompareDone /\ FetchFailed = DOMAIN input.repos) =>
        /\ Returned
        /\ response.output.comparison.mostStars.t = "null"
        /\ response.output.comparison.mostForks.t = "null"
        /\ response.output.comparison.mostRecent.t = "null"
        /\ response.output.comparison.avgStars.t = "null"

\* C5: when a name of a finished compare was fetched, avgStars is an integer
\* nearest to (sum of the stars of the fetched names) / (number of fetched
\* names); the failed names count in neither.
C5_AvgStars ==
    (CompareDone /\ Returned /\ FetchedOk # {}) =>
        LET avg == response.output.comparison.avgStars
            n == Cardinality(FetchedOk)
        IN  /\ avg.t = "num"
            /\ 2 * Abs(avg.v * n - SumStars(FetchedOk)) <= n

\* a failed name next to fetched names whose stars do not divide evenly
C5_Witness ==
    /\ CompareDone /\ Returned
    /\ FetchFailed # {}
    /\ Cardinality(FetchedOk) = 2
    /\ SumStars(FetchedOk) % 2 = 1
    /\ response.output.comparison.avgStars.t = "num"

\* C6: a finished repo-stats has thrown exactly when its repository-record
\* call failed; when it returned, a failed contributors call shows as an
\* empty topContributors and a failed languages call as an empty languages
\* mapping; once its three calls have settled it is finished.
C6_StatsOptionalCalls ==
    input.op = "repo-stats" =>
        /\ StatsDone =>
             /\ response.state = "threw" <=> calls[<<1, "repo">>].state = "rejected"
             /\ response.state = "returned" <=> StatsAll(calls).state = "fulfilled"
             /\ response.state \in {"threw", "returned"}
             /\ Returned =>
                  /\ calls[<<1, "repo">>].state = "fulfilled"
                  /\ calls[<<1, "contributors">>].state = "rejected"
                       => response.output.topContributors = <<>>
                  /\ calls[<<1, "languages">>].state = "rejected"
                       => DOMAIN response.output.languages.v = {}
        /\ calls[<<1, "repo">>].state = "rejected" => StatsDone
        /\ Pending(calls) = {} => StatsDone

\* repo-stats returned with both of its optional calls failed
C6_Witness ==
    /\ StatsDone /\ Returned
    /\ calls[<<1, "contributors">>].state = "rejected"
    /\ calls[<<1, "languages">>].state = "rejected"
    /\ response.output.topContributors = <<>>

\* the records of a finished search and what formatRepo made of them
SearchDone == pc = "done" /\ input.op = "search" /\ Returned
RawItems == calls[<<1, "search">>].value.v.items.v

\* C7: for a raw record lacking any of owner, license, topics and homepage,
\* formatRepo gives owner null, license null, topics the empty list and
\* homepage null where the field is missing, and leaves no field undefined.
C7_FormatRepoDefaults ==
    SearchDone =>
        \A i \in DOMAIN RawItems :
            LET raw == RawItems[i].v
                out == response.output.repos[i]
            IN  /\ "owner" \notin DOMAIN raw => out.owner.t = "null"
                /\ "license" \notin DOMAIN raw => out.license.t = "null"
                /\ "topics" \notin DOMAIN raw => out.topics = List(<<>>)
                /\ "homepage" \notin DOMAIN raw => out.homepage.t = "null"
                /\ \A k \in DOMAIN out : out[k].t # "undefined"

\* the search query as the claim composes it, before encoding
Composed(in) ==
    in.query
    \o (IF in.language.t # "undefined"
        THEN <<"+", "l", "a", "n", "g", "u", "a", "g", "e", ":">> \o in.language.v
        ELSE <<>>)
    \o (IF in.minStars.t # "undefined"
        THEN <<"+", "s", "t", "a", "r", "s", ":", ">", "=">> \o NumberToString(in.minStars.v)
        ELSE <<>>)

\* C8: the q of the upstream search request is the percent-encoding, applied
\* once, of the query followed by "+language:<language>" iff a language is
\* supplied and by "+stars:>=<N>" iff minStars is supplied.
C8_SearchQuery ==
    input.op = "search" =>
        calls[<<1, "search">>].path[2] = encodeURIComponent(Composed(input))

====
